---- MODULE Spec2Model ----
(***************************************************************************)
(* The job pipeline of src/app.py: the JOBS registry, the Flask handlers   *)
(* (start, pause, progress, download, cancel), the per-job orchestrator    *)
(* process_book running in its own thread and event loop, and the page     *)
(* fetchers download_page / find_page_url it gathers.                      *)
(*                                                                         *)
(* Atomicity.  A handler body under JOBS_LOCK is one step.  A coroutine    *)
(* runs from one await to the next without another coroutine of the same   *)
(* loop running; each such stretch touches the shared state at most once,  *)
(* so it is one step too.  pause() tests membership outside the lock       *)
(* (line 187) and acts under it (lines 190-201): two steps.                *)
(***************************************************************************)
EXTENDS Integers, Sequences, FiniteSets, TLC

\* ---------------------------------------------------------------- bounds
MaxPages == 2       \* a manifest lists 0..MaxPages page descriptors

\* ------------------------------------------------------------- constants
NumUrlOptions == 3  \* len(url_options)

JobIds == {"j1"}                 \* ids uuid4 can hand out
NoJob == "-"                     \* request without a job_id field
ReqIds == JobIds \cup {NoJob}    \* an id of JobIds is unknown until handed out
BookNames == {"", "abc123", "../x"}   \* absent, letters/digits, other
Actions == {"pause", "resume", "bogus"}
PageIdx == 0 .. (MaxPages - 1)

None == <<>>                     \* Python None / a falsy value

VARIABLES
  JOBS,         \* the registry: job id -> job dictionary (DOMAIN = keys)
  pause_event,  \* job id -> asyncio.Event._value of the job's pause_event
  used,         \* ids uuid4 has returned so far
  cancelled,    \* ids whose record cancel() has popped
  orch,         \* job id -> position of process_book
  npages,       \* job id -> len(fliphtml5_pages), the orchestrator's local
  downloaded,   \* job id -> downloaded_pages after line 115
  task,         \* job id -> page index -> the download_page coroutine
  pausing,      \* the pause() request between line 187 and line 190
  resp          \* the last response a handler returned

vars == <<JOBS, pause_event, used, cancelled, orch, npages, downloaded,
          task, pausing, resp>>

NoReq == [job |-> NoJob, action |-> "-"]
NoResp == [op |-> "-", job |-> NoJob, code |-> 0, body |-> "-"]
Response(op, j, code, body) == [op |-> op, job |-> j, code |-> code, body |-> body]

IdleTask == [pc |-> "none", cand |-> 0, url |-> 0]

\* ------------------------------------------------------------------ Init
Init ==
  /\ JOBS = [k \in {} |-> None]
  /\ pause_event = [j \in JobIds |-> TRUE]
  /\ used = {}
  /\ cancelled = {}
  /\ orch = [j \in JobIds |-> "none"]
  /\ npages = [j \in JobIds |-> 0]
  /\ downloaded = [j \in JobIds |-> <<>>]
  /\ task = [j \in JobIds |-> [p \in PageIdx |-> IdleTask]]
  /\ pausing = NoReq
  /\ resp = NoResp

\* --------------------------------------------------------- registry help
InJobs(j) == j \in DOMAIN JOBS

\* JOBS[job_id] = {...}: adds the key
JobsPut(j, rec) == [k \in (DOMAIN JOBS) \cup {j} |-> IF k = j THEN rec ELSE JOBS[k]]

\* JOBS.pop(job_id, None)
JobsPop(j) == [k \in (DOMAIN JOBS) \ {j} |-> JOBS[k]]

\* start() storing the job as already downloading
NewJobDownloading(book_name) ==
  [book_name |-> book_name, status |-> "downloading", total |-> 0, done |-> 0,
   pdf_data |-> None, book_title |-> "book", paused |-> FALSE]

\* the dictionary start() stores (lines 165-178)
NewJob(book_name) ==
  [book_name |-> book_name, status |-> "starting", total |-> 0, done |-> 0,
   pdf_data |-> None, book_title |-> "book", paused |-> FALSE]

\* JOBS[job_id][field] = value
JobSet(jobs, j, field, value) == [jobs EXCEPT ![j] = [@ EXCEPT ![field] = value]]

\* --------------------------------------------------- the control surface
\* start(), lines 155-181.  uuid4 returns an id it has not returned before.
Start(book_name) ==
  IF book_name = ""
  THEN /\ resp' = Response("start", NoJob, 400, "error")
       /\ UNCHANGED <<JOBS, pause_event, used, cancelled, orch, npages,
                      downloaded, task, pausing>>
  ELSE \E j \in JobIds \ used :
       /\ used' = used \cup {j}
       /\ pause_event' = [pause_event EXCEPT ![j] = TRUE]
       /\ JOBS' = JobsPut(j, NewJob(book_name))
       /\ orch' = [orch EXCEPT ![j] = "begin"]
       /\ resp' = Response("start", j, 200, "started")
       /\ UNCHANGED <<cancelled, npages, downloaded, task, pausing>>

\* pause(), lines 185-188: the membership test, made without the lock
PauseCheck(j, action) ==
  /\ pausing = NoReq
  /\ IF j = NoJob \/ ~InJobs(j)
     THEN /\ resp' = Response("pause", j, 404, "error")
          /\ UNCHANGED pausing
     ELSE /\ pausing' = [job |-> j, action |-> action]
          /\ UNCHANGED resp
  /\ UNCHANGED <<JOBS, pause_event, used, cancelled, orch, npages,
                 downloaded, task>>

\* asyncio.Event.set(): every future in _waiters gets its result
EventSet(tk) ==
  [p \in PageIdx |-> IF tk[p].pc = "wait" THEN [tk[p] EXCEPT !.pc = "woken"]
                                           ELSE tk[p]]

\* a pause handler that also records the status it answers in the job
PauseWriteStatus(jobs, j, paused) ==
  [jobs EXCEPT ![j].paused = paused,
               ![j].status = IF paused THEN "paused" ELSE "downloading"]

\* pause(), lines 193 and 197: the only field of the job the handler writes
PauseWrite(jobs, j, paused) == JobSet(jobs, j, "paused", paused)

\* pause(), lines 190-202: JOBS[job_id] raises KeyError for a popped job,
\* which Flask answers with 500
PauseAct ==
  /\ pausing # NoReq
  /\ pausing' = NoReq
  /\ LET j == pausing.job
         action == pausing.action
     IN IF ~InJobs(j)
        THEN /\ resp' = Response("pause", j, 500, "KeyError")
             /\ UNCHANGED <<JOBS, pause_event, task>>
        ELSE IF action = "pause"
        THEN /\ JOBS' = PauseWrite(JOBS, j, TRUE)
             /\ pause_event' = [pause_event EXCEPT ![j] = FALSE]
             /\ resp' = Response("pause", j, 200, "paused")
             /\ UNCHANGED task
        ELSE IF action = "resume"
        THEN /\ JOBS' = PauseWrite(JOBS, j, FALSE)
             /\ pause_event' = [pause_event EXCEPT ![j] = TRUE]
             /\ task' = [task EXCEPT ![j] = EventSet(@)]
             /\ resp' = Response("pause", j, 200, "downloading")
        ELSE /\ resp' = Response("pause", j, 400, "error")
             /\ UNCHANGED <<JOBS, pause_event, task>>
  /\ UNCHANGED <<used, cancelled, orch, npages, downloaded>>

\* get_progress(), lines 204-217: the view leaves out pause_event and pdf_data
GetProgress(j) ==
  /\ resp' = IF j = NoJob THEN Response("progress", j, 400, "error")
             ELSE IF ~InJobs(j) THEN Response("progress", j, 404, "not_found")
             ELSE Response("progress", j, 200, JOBS[j].status)
  /\ UNCHANGED <<JOBS, pause_event, used, cancelled, orch, npages,
                 downloaded, task, pausing>>

\* download(), lines 219-239
Download(j) ==
  /\ resp' = IF j = NoJob THEN Response("download", j, 400, "error")
             ELSE IF InJobs(j) /\ JOBS[j].pdf_data # None
                  THEN Response("download", j, 200, "pdf")
                  ELSE Response("download", j, 404, "unavailable")
  /\ UNCHANGED <<JOBS, pause_event, used, cancelled, orch, npages,
                 downloaded, task, pausing>>

\* cancel(), lines 241-256
Cancel(j) ==
  IF j = NoJob
  THEN /\ resp' = Response("cancel", j, 400, "error")
       /\ UNCHANGED <<JOBS, pause_event, used, cancelled, orch, npages,
                      downloaded, task, pausing>>
  ELSE IF InJobs(j)
  THEN /\ JOBS' = JobsPop(j)
       /\ cancelled' = cancelled \cup {j}
       /\ resp' = Response("cancel", j, 200, "cancelled")
       /\ UNCHANGED <<pause_event, used, orch, npages, downloaded, task, pausing>>
  ELSE /\ resp' = Response("cancel", j, 404, "error")
       /\ UNCHANGED <<JOBS, pause_event, used, cancelled, orch, npages,
                      downloaded, task, pausing>>

\* ------------------------------------------------------- the page fetcher
\* What the remote host can answer to a HEAD probe or a GET, and to a read.
\* "Timeout" stands for an exception that is not an aiohttp.ClientError.
HttpOutcomes == {"200", "404", "ClientError", "Timeout"}
ReadOutcomes == {"chunk", "eof", "ClientError", "Timeout"}

Finished(t) == t.pc \in {"page", "nopage", "raised", "cancelled"}

\* A future resolved by Event.set() resumes its coroutine when the event loop
\* next runs its ready queue: wait() returns True without looking at the
\* event again, and the coroutine goes on to r.content.read (line 69).
WokenRun(t) == IF t.pc = "woken" THEN [t EXCEPT !.pc = "read"] ELSE t

\* One iteration of job j's event loop that delivers an event to fetcher p:
\* the ready queue (the woken waiters) runs, and p continues as `new`.
LoopStep(j, p, new) ==
  task' = [task EXCEPT ![j] =
             [q \in PageIdx |-> IF q = p THEN new ELSE WokenRun(task[j][q])]]

\* a fetcher runs while process_book awaits the gather of line 113, and, when
\* the gather re-raised, for the loop iterations that remain until
\* asyncio.run cancels the pending tasks
Running(j, p) == orch[j] \in {"gather", "shutdown"} /\ ~Finished(task[j][p])

\* the loop of line 67 without the wait of line 68
GateIgnored(j, t) == [t EXCEPT !.pc = "read"]

\* `await pause_event.wait()` (line 68): passes when the event is set,
\* otherwise appends a future to the event's waiters and suspends
GateWait(j, t) == [t EXCEPT !.pc = IF pause_event[j] THEN "read" ELSE "wait"]

\* download_page, lines 53-57: the coroutine's first run
TaskBegin(j, p) ==
  /\ Running(j, p)
  /\ task[j][p].pc = "begin"
  /\ LoopStep(j, p, IF InJobs(j)
                    THEN [task[j][p] EXCEPT !.pc = "resolve", !.cand = 1]
                    ELSE [task[j][p] EXCEPT !.pc = "nopage"])
  /\ UNCHANGED <<JOBS, pause_event, used, cancelled, orch, npages,
                 downloaded, pausing, resp>>

\* find_page_url, lines 42-49: the answer to the probe of candidate t.cand
FindPageUrlStep(t, r) ==
  IF r = "200" THEN [t EXCEPT !.pc = "get", !.url = t.cand, !.cand = 0]
  ELSE IF r = "Timeout" THEN [t EXCEPT !.pc = "raised", !.cand = 0]
  ELSE IF t.cand < NumUrlOptions THEN [t EXCEPT !.cand = t.cand + 1]
  ELSE [t EXCEPT !.pc = "nopage", !.cand = 0]

Probe(j, p, r) ==
  /\ Running(j, p)
  /\ task[j][p].pc = "resolve"
  /\ LoopStep(j, p, FindPageUrlStep(task[j][p], r))
  /\ UNCHANGED <<JOBS, pause_event, used, cancelled, orch, npages,
                 downloaded, pausing, resp>>

\* download_page, lines 65-68 and 79-83: the answer to the GET
GetResponse(j, p, r) ==
  /\ Running(j, p)
  /\ task[j][p].pc = "get"
  /\ LET t == [task[j][p] EXCEPT !.url = 0]
     IN LoopStep(j, p, IF r = "200" THEN GateWait(j, t)
                       ELSE IF r = "Timeout" THEN [t EXCEPT !.pc = "raised"]
                       ELSE [t EXCEPT !.pc = "nopage"])
  /\ UNCHANGED <<JOBS, pause_event, used, cancelled, orch, npages,
                 downloaded, pausing, resp>>

\* lines 74-76: the counter, under the lock, for a job still in the registry
CountPage(jobs, j) ==
  IF j \in DOMAIN jobs THEN JobSet(jobs, j, "done", jobs[j].done + 1) ELSE jobs

\* download_page, lines 69-78 and 81-83: the answer to r.content.read(8192)
ReadChunk(j, p, r) ==
  /\ Running(j, p)
  /\ task[j][p].pc = "read"
  /\ LET t == task[j][p]
     IN /\ LoopStep(j, p,
             IF r = "chunk" THEN GateWait(j, t)
             ELSE IF r = "eof" THEN [t EXCEPT !.pc = "page"]
             ELSE IF r = "Timeout" THEN [t EXCEPT !.pc = "raised"]
             ELSE [t EXCEPT !.pc = "nopage"])
        /\ JOBS' = IF r = "eof" THEN CountPage(JOBS, j) ELSE JOBS
  /\ UNCHANGED <<pause_event, used, cancelled, orch, npages,
                 downloaded, pausing, resp>>

\* The event loop runs its ready queue for another reason than a network
\* event of this job (it was not yet asleep in select when set() was called).
Wake(j, p) ==
  /\ Running(j, p)
  /\ task[j][p].pc = "woken"
  /\ LoopStep(j, p, WokenRun(task[j][p]))
  /\ UNCHANGED <<JOBS, pause_event, used, cancelled, orch, npages,
                 downloaded, pausing, resp>>

\* ------------------------------------------------------- the orchestrator
\* the handler writing the status without the membership test
OnExceptionUnguarded(jobs, j) ==
  [k \in (DOMAIN jobs) \cup {j} |->
     IF k = j THEN [status |-> "failed", book_name |-> "", total |-> 0, done |-> 0,
                    pdf_data |-> None, book_title |-> "book", paused |-> FALSE]
     ELSE jobs[k]]

\* a handler that only prints the exception
OnExceptionSilent(jobs, j) == jobs

\* lines 142-146 (and 97-98): the handler of an exception in process_book
OnException(jobs, j) ==
  IF j \in DOMAIN jobs THEN JobSet(jobs, j, "status", "failed") ELSE jobs

\* lines 87-89: JOBS[job_id] raises KeyError for a popped job, which the
\* handler at line 142 absorbs
OrchBegin(j) ==
  /\ orch[j] = "begin"
  /\ IF InJobs(j)
     THEN /\ JOBS' = JobSet(JOBS, j, "status", "downloading")
          /\ orch' = [orch EXCEPT ![j] = "fetch_json"]
     ELSE /\ JOBS' = OnException(JOBS, j)
          /\ orch' = [orch EXCEPT ![j] = "finished"]
  /\ UNCHANGED <<pause_event, used, cancelled, npages, downloaded, task,
                 pausing, resp>>

\* lines 93-99: fetch_json raises (transport, decoding, no '= ' in the text)
FetchJsonFail(j) ==
  /\ orch[j] = "fetch_json"
  /\ JOBS' = OnException(JOBS, j)
  /\ orch' = [orch EXCEPT ![j] = "finished"]
  /\ UNCHANGED <<pause_event, used, cancelled, npages, downloaded, task,
                 pausing, resp>>

\* total taken from the last page index instead of the length
SetTotalLastIndex(jobs, j, n) ==
  IF j \in DOMAIN jobs
  THEN JobSet(JobSet(jobs, j, "total", n - 1), j, "book_title", "title")
  ELSE jobs

\* lines 105-109 for a manifest with n pages and a title
SetTotal(jobs, j, n) ==
  IF j \in DOMAIN jobs
  THEN JobSet(JobSet(jobs, j, "total", n), j, "book_title", "title")
  ELSE jobs

\* lines 94-112: config.js parsed.  shape "ok" has 'fliphtml5_pages' and
\* meta.title; "no_pages" lacks the former (KeyError at line 101);
\* "no_title" lacks the latter (KeyError at line 109, after total is set).
FetchJsonOk(j, n, shape) ==
  /\ orch[j] = "fetch_json"
  /\ IF shape = "ok"
     THEN /\ JOBS' = SetTotal(JOBS, j, n)
          /\ npages' = [npages EXCEPT ![j] = n]
          /\ task' = [task EXCEPT ![j] =
                        [p \in PageIdx |-> IF p < n
                                           THEN [IdleTask EXCEPT !.pc = "begin"]
                                           ELSE IdleTask]]
          /\ orch' = [orch EXCEPT ![j] = "gather"]
     ELSE /\ JOBS' = IF shape = "no_title" /\ InJobs(j)
                     THEN OnException(JobSet(JOBS, j, "total", n), j)
                     ELSE OnException(JOBS, j)
          /\ orch' = [orch EXCEPT ![j] = "finished"]
          /\ UNCHANGED <<npages, task>>
  /\ UNCHANGED <<pause_event, used, cancelled, downloaded, pausing, resp>>

\* image_bytes_buffer.getvalue(): the image the host serves for page p
PageBytes(p) == [page |-> p, fmt |-> "raw"]

\* what download_page returned: (page_info['p'], bytes) or None
TaskResult(p, t) == IF t.pc = "page" THEN <<p, PageBytes(p)>> ELSE None

\* asyncio.gather: the results in the order of the awaitables
GatherResults(j) == [k \in 1 .. npages[j] |-> TaskResult(k - 1, task[j][k - 1])]

Truthy(x) == x # None

RECURSIVE InsertByKey(_, _)
InsertByKey(sorted, x) ==
  IF sorted = <<>> THEN <<x>>
  ELSE IF x[1] < sorted[1][1] THEN <<x>> \o sorted
  ELSE <<sorted[1]>> \o InsertByKey(Tail(sorted), x)

\* sorted(seq, key=lambda x: x[0]): stable, ascending
RECURSIVE SortedByKey(_)
SortedByKey(seq) ==
  IF seq = <<>> THEN <<>>
  ELSE InsertByKey(SortedByKey(SubSeq(seq, 1, Len(seq) - 1)), seq[Len(seq)])

\* the sort of line 115 with reverse=True
SortPagesReversed(results) ==
  LET s == SortedByKey(SelectSeq(results, Truthy))
  IN [k \in 1 .. Len(s) |-> s[Len(s) + 1 - k]]

\* line 115
SortPages(results) == SortedByKey(SelectSeq(results, Truthy))

\* lines 117-122 without the test of line 119
AfterGatherNoEmptyTest(jobs, j, pages) ==
  IF j \notin DOMAIN jobs THEN jobs
  ELSE JobSet(jobs, j, "status", "preparing_pdf")

\* lines 117-122 without the assignment of line 122
AfterGatherNoStatus(jobs, j, pages) ==
  IF j \notin DOMAIN jobs THEN jobs
  ELSE IF pages = <<>> THEN JobSet(jobs, j, "status", "failed")
  ELSE jobs

\* lines 117-122, under the lock
AfterGather(jobs, j, pages) ==
  IF j \notin DOMAIN jobs THEN jobs
  ELSE IF pages = <<>> THEN JobSet(jobs, j, "status", "failed")
  ELSE JobSet(jobs, j, "status", "preparing_pdf")

\* lines 113-122: every fetcher returned, none raised
Gather(j) ==
  /\ orch[j] = "gather"
  /\ \A p \in PageIdx : p < npages[j] => task[j][p].pc \in {"page", "nopage"}
  /\ LET pages == SortPages(GatherResults(j))
     IN /\ downloaded' = [downloaded EXCEPT ![j] = pages]
        /\ JOBS' = AfterGather(JOBS, j, pages)
        /\ orch' = [orch EXCEPT ![j] =
                      IF InJobs(j) /\ pages # <<>> THEN "prepare" ELSE "finished"]
  /\ UNCHANGED <<pause_event, used, cancelled, npages, task, pausing, resp>>

\* line 113: gather re-raises the first exception a fetcher raised; the
\* handler at line 142 runs while the other fetchers are still pending
GatherRaise(j) ==
  /\ orch[j] = "gather"
  /\ \E p \in PageIdx : task[j][p].pc = "raised"
  /\ JOBS' = OnException(JOBS, j)
  /\ orch' = [orch EXCEPT ![j] = "shutdown"]
  /\ UNCHANGED <<pause_event, used, cancelled, npages, downloaded, task,
                 pausing, resp>>

\* line 180: asyncio.run cancels the tasks still pending when process_book
\* has returned; CancelledError is raised at the await they are suspended on
LoopShutdown(j) ==
  /\ orch[j] = "shutdown"
  /\ task' = [task EXCEPT ![j] =
                [p \in PageIdx |-> IF task[j][p].pc = "none" \/ Finished(task[j][p])
                                   THEN task[j][p]
                                   ELSE [task[j][p] EXCEPT !.pc = "cancelled"]]]
  /\ orch' = [orch EXCEPT ![j] = "finished"]
  /\ UNCHANGED <<JOBS, pause_event, used, cancelled, npages, downloaded,
                 pausing, resp>>

\* lines 127-132: resize to 60 %, re-encode as JPEG of quality 30
Compress(image_data) == [image_data EXCEPT !.fmt = "jpeg_q30_s60"]

\* lines 125-132: the loop over the sorted (index, bytes) pairs
CompressAll(pages) == [k \in 1 .. Len(pages) |-> Compress(pages[k][2])]

\* line 135: img2pdf.convert, one PDF page per image, in list order
Img2PdfConvert(images) ==
  [k \in 1 .. Len(images) |-> [pdf_page |-> k, image |-> images[k]]]

\* lines 137-141 without the assignment of line 141
StorePdfNoStatus(jobs, j, pdf_bytes) ==
  IF j \in DOMAIN jobs THEN JobSet(jobs, j, "pdf_data", pdf_bytes) ELSE jobs

\* lines 137-141, under the lock
StorePdf(jobs, j, pdf_bytes) ==
  IF j \in DOMAIN jobs
  THEN JobSet(JobSet(jobs, j, "pdf_data", pdf_bytes), j, "status", "done")
  ELSE jobs

\* lines 125-141: every image decodes and the document is stored
PreparePdf(j) ==
  /\ orch[j] = "prepare"
  /\ JOBS' = StorePdf(JOBS, j, Img2PdfConvert(CompressAll(downloaded[j])))
  /\ orch' = [orch EXCEPT ![j] = "finished"]
  /\ UNCHANGED <<pause_event, used, cancelled, npages, downloaded, task,
                 pausing, resp>>

\* lines 127-135 raise (Image.open on bytes that are no image, img2pdf)
PreparePdfFail(j) ==
  /\ orch[j] = "prepare"
  /\ JOBS' = OnException(JOBS, j)
  /\ orch' = [orch EXCEPT ![j] = "finished"]
  /\ UNCHANGED <<pause_event, used, cancelled, npages, downloaded, task,
                 pausing, resp>>

\* ------------------------------------------------------------------ Next
Next ==
  \/ \E b \in BookNames : Start(b)
  \/ \E j \in ReqIds, a \in Actions : PauseCheck(j, a)
  \/ PauseAct
  \/ \E j \in ReqIds : GetProgress(j)
  \/ \E j \in ReqIds : Download(j)
  \/ \E j \in ReqIds : Cancel(j)
  \/ \E j \in JobIds : OrchBegin(j)
  \/ \E j \in JobIds : FetchJsonFail(j)
  \/ \E j \in JobIds, n \in 0 .. MaxPages, shape \in {"ok", "no_pages", "no_title"} :
        FetchJsonOk(j, n, shape)
  \/ \E j \in JobIds, p \in PageIdx : TaskBegin(j, p)
  \/ \E j \in JobIds, p \in PageIdx, r \in HttpOutcomes : Probe(j, p, r)
  \/ \E j \in JobIds, p \in PageIdx, r \in HttpOutcomes : GetResponse(j, p, r)
  \/ \E j \in JobIds, p \in PageIdx, r \in ReadOutcomes : ReadChunk(j, p, r)
  \/ \E j \in JobIds, p \in PageIdx : Wake(j, p)
  \/ \E j \in JobIds : Gather(j)
  \/ \E j \in JobIds : GatherRaise(j)
  \/ \E j \in JobIds : LoopShutdown(j)
  \/ \E j \in JobIds : PreparePdf(j)
  \/ \E j \in JobIds : PreparePdfFail(j)

Spec == Init /\ [][Next]_vars

\* Fairness.  The host answers every request and every page body ends; the
\* orchestrator thread and the event loop run.  The handlers are calls of the
\* environment and get none.  Wake gets none: Event.set() is called from a
\* Flask thread, asyncio.Event is not thread-safe, and the callbacks set()
\* queues do not wake a loop that sleeps in select(); they run when a network
\* event of the job next wakes it (LoopStep).
Fairness ==
  \A j \in JobIds :
    /\ WF_vars(OrchBegin(j))
    /\ WF_vars(FetchJsonFail(j) \/ \E n \in 0 .. MaxPages,
                                      shape \in {"ok", "no_pages", "no_title"} :
                                   FetchJsonOk(j, n, shape))
    /\ WF_vars(Gather(j))
    /\ WF_vars(GatherRaise(j))
    /\ WF_vars(LoopShutdown(j))
    /\ WF_vars(PreparePdf(j) \/ PreparePdfFail(j))
    /\ \A p \in PageIdx :
         /\ WF_vars(TaskBegin(j, p))
         /\ WF_vars(\E r \in HttpOutcomes : Probe(j, p, r))
         /\ WF_vars(\E r \in HttpOutcomes : GetResponse(j, p, r))
         /\ WF_vars(\E r \in ReadOutcomes : ReadChunk(j, p, r))
         /\ SF_vars(\E r \in ReadOutcomes \ {"chunk"} : ReadChunk(j, p, r))

FairSpec == Spec /\ Fairness

\* ================================================================ claims
Jobs == DOMAIN JOBS
Fetched(j) == {p \in PageIdx : task[j][p].pc = "page"}
Ended(j) == orch[j] = "finished"
GateClosed(j) == ~pause_event[j]

\* the page indices of a list of (index, bytes) pairs, and of a document
PageOrder(pages) == [k \in 1 .. Len(pages) |-> pages[k][1]]
DocOrder(pdf) == [k \in 1 .. Len(pdf) |-> pdf[k].image.page]
StrictlyAscending(seq) == \A a, b \in 1 .. Len(seq) : a < b => seq[a] < seq[b]

RECURSIVE SetToAscending(_)
SetToAscending(S) ==
  IF S = {} THEN <<>>
  ELSE LET m == CHOOSE x \in S : \A y \in S : x <= y
       IN <<m>> \o SetToAscending(S \ {m})

\* C1: in every reachable state, a job of the registry has its result
\* document (pdf_data) set if and only if its status is done.
C1_PdfIffDone ==
  \A j \in Jobs : (JOBS[j].pdf_data # None) <=> (JOBS[j].status = "done")

\* a job that reached done with its document stored
C1_Witness ==
  \E j \in Jobs : JOBS[j].status = "done" /\ Len(JOBS[j].pdf_data) >= 1

\* C2: whatever the order in which the fetchers completed, the pages handed
\* to the document assembler (downloaded_pages after line 115), and the
\* pages of a stored document, are strictly ascending by page index: no
\* index twice, none out of order.
C2_PagesAscending ==
  \A j \in JobIds :
    /\ StrictlyAscending(PageOrder(downloaded[j]))
    /\ j \in Jobs => StrictlyAscending(DocOrder(JOBS[j].pdf_data))

\* a document of two pages or more has been assembled
C2_Witness ==
  \E j \in Jobs : Len(JOBS[j].pdf_data) >= 2 /\ Len(downloaded[j]) >= 2

\* C3: a job's counter of completed pages (done) never exceeds its total;
\* before the manifest sets total both are 0.
C3_DoneAtMostTotal ==
  \A j \in Jobs : JOBS[j].done <= JOBS[j].total

\* every page of a manifest of two pages or more has been counted
C3_Witness ==
  \E j \in Jobs : JOBS[j].total >= 2 /\ JOBS[j].done = JOBS[j].total

\* No fetcher of job j is past the gate: none is suspended in a chunk read,
\* none has been released by an earlier resume and not yet run.
Settled(j) == \A p \in PageIdx : task[j][p].pc \notin {"read", "woken"}

C5_ResumeResumesGrowth ==
  \A j \in JobIds, p \in PageIdx :
    (task[j][p].pc = "woken")
       ~> (task[j][p].pc # "woken" \/ GateClosed(j) \/ j \notin Jobs)

\* a handler's response that this step produced
Answered(op) == resp' # resp /\ resp'.op = op

\* C6: cancel on an id not in the registry answers 404 and changes nothing;
\* cancel on a known job removes its record; a removed record is never
\* re-created or written by the job's orchestrator and fetchers, and a
\* progress call for it answers 404.
C6_CancelRemoves ==
  /\ [](cancelled \cap Jobs = {})
  /\ []((resp.op = "progress" /\ resp.job \in cancelled) => resp.code = 404)
  /\ [][(Answered("cancel") /\ resp'.job \in JobIds)
          => IF resp'.job \in Jobs
             THEN /\ resp'.code = 200
                  /\ resp'.job \notin DOMAIN JOBS'
                  /\ resp'.job \in cancelled'
             ELSE /\ resp'.code = 404
                  /\ UNCHANGED <<JOBS, pause_event, used, cancelled, orch,
                                 npages, downloaded, task, pausing>>]_vars

\* progress answered 404 for a cancelled job whose fetcher has since
\* finished a page (its count was dropped)
C6_Witness ==
  /\ resp.op = "progress" /\ resp.job \in cancelled /\ resp.code = 404
  /\ Fetched(resp.job) # {}

\* C7 as stated: a progress call issued right after start returned (no other
\* call in between) observes status starting.
C7_ProgressSeesStarting ==
  [][(resp.op = "start" /\ resp.code = 200 /\ Answered("progress")
        /\ resp'.job = resp.job)
       => (resp'.code = 200 /\ resp'.body = "starting")]_vars

\* C7 amended: start stores a job under a fresh id with status starting and
\* returns with the orchestrator not yet run; a progress call issued right
\* after finds the job, and observes starting as long as the orchestrator
\* thread has not taken its first step (lines 88-89), otherwise a later
\* status of the pipeline.
C7_StartThenProgress ==
  /\ [][(Answered("start") /\ resp'.code = 200)
          => /\ resp'.job \notin used /\ resp'.job \notin Jobs
             /\ resp'.job \in DOMAIN JOBS'
             /\ JOBS'[resp'.job].status = "starting"
             /\ orch'[resp'.job] = "begin"
             /\ UNCHANGED <<npages, downloaded, task>>]_vars
  /\ [][(resp.op = "start" /\ resp.code = 200 /\ Answered("progress")
           /\ resp'.job = resp.job)
          => /\ resp'.code = 200
             /\ resp'.body \in {"starting", "downloading", "preparing_pdf",
                                "done", "failed"}
             /\ orch[resp.job] = "begin" => resp'.body = "starting"]_vars

\* progress observed starting for a job whose orchestrator has not yet run
C7_Witness ==
  /\ resp.op = "progress" /\ resp.code = 200 /\ resp.body = "starting"
  /\ orch[resp.job] = "begin"

\* C8: a job of the registry whose orchestrator has ended without any page
\* fetched has status failed and no document, in that and every later
\* state; no job has a document without a fetched page, and download
\* answers 200 only for a job with a fetched page.
C8_NoPagesFailed ==
  /\ \A j \in Jobs :
       Fetched(j) = {} =>
         /\ JOBS[j].pdf_data = None
         /\ Ended(j) => JOBS[j].status = "failed"
  /\ (resp.op = "download" /\ resp.code = 200) => Fetched(resp.job) # {}

\* the manifest listed pages, every fetcher returned no page, the job failed
C8_Witness ==
  \E j \in Jobs :
    /\ Ended(j) /\ npages[j] >= 1 /\ JOBS[j].total = npages[j]
    /\ \A p \in PageIdx : p < npages[j] => task[j][p].pc = "nopage"
    /\ JOBS[j].status = "failed"

\* normalisation or assembly raised (lines 127-135) after a gather that
\* returned pages
PostProcessingFailed(j) == downloaded[j] # <<>> /\ JOBS[j].status = "failed"

\* C9: a job of the registry that was not cancelled, whose orchestrator has
\* ended, with a non-empty set S of fetched pages and every other page
\* failed, has the document of exactly the pages of S in ascending order
\* and done = |S| (post-processing errors, on which the claim is silent,
\* are left aside).
C9_PartialSuccess ==
  \A j \in Jobs :
    (/\ Ended(j) /\ Fetched(j) # {} /\ ~PostProcessingFailed(j)
     /\ \A p \in PageIdx : p < npages[j] => task[j][p].pc \in {"page", "nopage", "raised"})
    =>
       /\ JOBS[j].status = "done"
       /\ DocOrder(JOBS[j].pdf_data) = SetToAscending(Fetched(j))
       /\ JOBS[j].done = Cardinality(Fetched(j))

\* the statuses of the specification and the moves it allows
SpecForward ==
  {<<"starting", "downloading">>, <<"downloading", "compressing">>,
   <<"compressing", "creating_document">>, <<"creating_document", "done">>}
SpecNonTerminal == {"starting", "downloading", "compressing", "creating_document"}

\* C10 as stated: a job's status moves only along starting -> downloading
\* -> compressing -> creating_document -> done, or from a non-terminal
\* status to failed.
C10_SpecStateMachine ==
  [][\A j \in Jobs \cap DOMAIN JOBS' :
       \/ JOBS'[j].status = JOBS[j].status
       \/ <<JOBS[j].status, JOBS'[j].status>> \in SpecForward
       \/ JOBS[j].status \in SpecNonTerminal /\ JOBS'[j].status = "failed"]_vars

\* the statuses of the code and the moves it makes
CodeStatuses == {"starting", "downloading", "preparing_pdf", "done", "failed"}
CodeForward ==
  {<<"starting", "downloading">>, <<"downloading", "preparing_pdf">>,
   <<"preparing_pdf", "done">>}
CodeNonTerminal == {"starting", "downloading", "preparing_pdf"}

\* C10 amended: a job is created in starting; its status takes only the
\* values starting, downloading, preparing_pdf, done and failed, moves only
\* forward along starting -> downloading -> preparing_pdf -> done without
\* skipping or revisiting, and enters failed only from a non-terminal one.
C10_CodeStateMachine ==
  [][/\ \A j \in DOMAIN JOBS' \ Jobs : JOBS'[j].status = "starting"
     /\ \A j \in Jobs \cap DOMAIN JOBS' :
          /\ JOBS'[j].status \in CodeStatuses
          /\ \/ JOBS'[j].status = JOBS[j].status
             \/ <<JOBS[j].status, JOBS'[j].status>> \in CodeForward
             \/ JOBS[j].status \in CodeNonTerminal /\ JOBS'[j].status = "failed"]_vars

\* a job in the post-download status, and one that failed from it
C10_Witness ==
  \E j \in Jobs : JOBS[j].status = "failed" /\ downloaded[j] # <<>>

\* the fields of a job the pipeline writes
PipelineFields(j) ==
  <<JOBS[j].status, JOBS[j].total, JOBS[j].done, JOBS[j].pdf_data>>

\* C11: failed is terminal: once a job's status is failed, its status,
\* total, done and pdf_data never change again; the job can only still be
\* removed by cancel.
C11_FailedIsTerminal ==
  [][\A j \in Jobs :
       JOBS[j].status = "failed" =>
         \/ j \in DOMAIN JOBS' /\ PipelineFields(j)' = PipelineFields(j)
         \/ j \notin DOMAIN JOBS' /\ j \in cancelled']_vars

\* the book names made of letters and digits only
AlnumNames == {"abc123"}

\* C12: start with a book name that is absent or has a character other
\* than letters and digits is answered 400 and leaves the registry
\* unchanged: every step that adds a job record adds one whose book name is
\* made of letters and digits, and a step that starts an orchestrator adds
\* such a record.
C12_StartRejectsBadName ==
  [][\A j \in JobIds :
       (j \in DOMAIN JOBS' \ DOMAIN JOBS \/ (orch[j] = "none" /\ orch'[j] # "none"))
       => /\ j \in DOMAIN JOBS'
          /\ JOBS'[j].book_name \in AlnumNames
          /\ resp' = Response("start", j, 200, "started")]_vars

\* C13: a pause call that answers while its job is not in the registry
\* answers 404, never an unhandled error, and leaves registry and gate as
\* they were.
C13_PauseAfterCancel404 ==
  [][(Answered("pause") /\ resp'.job \notin Jobs)
       => /\ resp'.code = 404
          /\ UNCHANGED <<JOBS, pause_event>>]_vars

\* C14: a page-local failure never escapes the fetch step: no fetcher ends
\* by raising, and a job that ended with at least one page fetched (and no
\* post-processing error) is done.
C14_PageFailureStaysLocal ==
  \A j \in JobIds :
    /\ \A p \in PageIdx : task[j][p].pc # "raised"
    /\ (j \in Jobs /\ Ended(j) /\ Fetched(j) # {} /\ ~PostProcessingFailed(j))
         => JOBS[j].status = "done"

\* C15: fan-in barrier: once a job's status is past downloading, every
\* fetcher dispatched for its manifest has finished and done no longer
\* changes.
C15_FanInBarrier ==
  [][\A j \in Jobs :
       JOBS[j].status \notin {"starting", "downloading"}
       => /\ \A p \in PageIdx : p < npages[j] => Finished(task[j][p])
          /\ j \in DOMAIN JOBS' => JOBS'[j].done = JOBS[j].done]_vars

\* C16: after cancel removed a job, its orchestrator and fetchers
\* eventually stop, also when the gate was closed and fetchers wait on it
\* (a fetcher whose wake-up by set() is pending is left aside).
C16_CancelledWorkStops ==
  \A j \in JobIds :
    (j \in cancelled)
       ~> (Ended(j) \/ \E p \in PageIdx : task[j][p].pc = "woken")

\* a step of the control surface: pause (either half), progress or download
ControlStep ==
  \/ pausing' # pausing
  \/ Answered("pause") \/ Answered("progress") \/ Answered("download")

\* C17: the control surface never writes pipeline fields: a step of pause,
\* progress or download leaves every job in the registry with its status,
\* total, done and pdf_data unchanged; a step that changes one of them is a
\* step of that job's orchestrator or fetchers.
C17_ControlNeverWritesPipeline ==
  [][\A j \in Jobs :
       /\ ControlStep => (j \in DOMAIN JOBS' /\ PipelineFields(j)' = PipelineFields(j))
       /\ (j \in DOMAIN JOBS' /\ PipelineFields(j)' # PipelineFields(j))
            => (orch'[j] # orch[j] \/ task'[j] # task[j])]_vars

\* resume was answered "downloading" for a job that is preparing its
\* document with pages counted: its status is still preparing_pdf
C17_Witness ==
  \E j \in Jobs :
    /\ resp = Response("pause", j, 200, "downloading")
    /\ JOBS[j].status = "preparing_pdf" /\ JOBS[j].done >= 1
    /\ ~JOBS[j].paused

\* C18: an error raised after the manifest is loaded moves an uncancelled
\* job to failed with no document: whenever the orchestrator of a job of
\* the registry leaves the manifest, fan-out or post-processing step
\* without having stored the document, the job is failed and its pdf_data
\* is None; in particular when the gather re-raised.
C18_ErrorMeansFailed ==
  [][\A j \in Jobs \cap DOMAIN JOBS' :
       /\ (orch[j] \in {"fetch_json", "gather", "prepare"}
           /\ orch'[j] \in {"shutdown", "finished"}
           /\ JOBS'[j].status # "done")
            => (JOBS'[j].status = "failed" /\ JOBS'[j].pdf_data = None)
       /\ orch'[j] = "shutdown"
            => (JOBS'[j].status = "failed" /\ JOBS'[j].pdf_data = None)]_vars

\* the manifest was loaded and its pages counted, then the missing title
\* raised (line 109): the job ended failed without a document
C18_Witness ==
  \E j \in Jobs :
    /\ Ended(j) /\ npages[j] = 0 /\ JOBS[j].total >= 1
    /\ JOBS[j].status = "failed" /\ JOBS[j].pdf_data = None

\* C19: find_page_url probes its candidates strictly in order: a fetcher
\* probing candidate c either keeps probing it, goes on to candidate c + 1
\* (not found or transport error), returns candidate c as the url (first
\* success, no later probe), or returns None after the last candidate; it
\* ends in no other way unless the loop cancels it.
C19_ResolverInOrder ==
  [][\A j \in JobIds, p \in PageIdx :
       task[j][p].pc = "resolve" =>
         LET c == task[j][p].cand
             t == task'[j][p]
         IN \/ t = task[j][p]
            \/ t.pc = "resolve" /\ t.cand = c + 1 /\ c < NumUrlOptions
            \/ t.pc = "get" /\ t.url = c
            \/ t.pc = "nopage" /\ c = NumUrlOptions
            \/ t.pc = "cancelled"]_vars

\* C20: termination: a job of the registry whose gate is open eventually
\* reaches done or failed, unless it is cancelled or its gate is closed.
C20_Termination ==
  \A j \in JobIds :
    (j \in Jobs /\ ~GateClosed(j))
       ~> (\/ j \notin Jobs
           \/ GateClosed(j)
           \/ JOBS[j].status \in {"done", "failed"})

====
